---- MODULE Spec2Model ----
(***************************************************************************)
(* rofi-rwifi: scan cache, scan lock, refresh coordination (get_aps /      *)
(* do_scan), the refresh daemon, the connection retry loop and the menu.   *)
(*                                                                         *)
(* SpecScan    - the foreground menu process, its spawned refresh tasks,   *)
(*               the one-shot `scan` command and the daemon, sharing the   *)
(*               cache file, its temporary file and the flock.             *)
(* SpecConnect - one run of do_connect_new.                                *)
(* SpecMenu    - main's loop, run_menu and handle_action with every prompt *)
(*               they open, get_aps summarised by its outcomes.            *)
(* SpecDaemon  - concurrent `rofi-wifi daemon` commands, `rofi-wifi daemon-stop`  *)
(*               and the PID file; SpecDaemonFair adds the fairness of the *)
(*               daemon's loop.                                            *)
(* SpecList    - list_access_points over every short nmcli listing.        *)
(* SpecClassify - connect_new's result over every short nmcli output.      *)
(***************************************************************************)
EXTENDS Integers, Sequences, FiniteSets, TLC

\* ------------------------------------------------------------------ bounds
MaxTime  == 1      \* the wall clock runs over 0..MaxTime
MaxTTL   == 1      \* cfg.cache_ttl is drawn from 0..MaxTTL
MaxTasks == 1      \* refresh tasks spawned by get_aps that may be pending
MaxAPs   == 1      \* longest access-point list a scan returns
MaxCeiling == 3    \* cfg.max_retry is drawn from 0..MaxCeiling
MaxCred  == 2      \* distinct non-empty credentials a user can type
MaxDaemons == 2    \* `rofi-wifi daemon` commands that may be started
MaxLines == 3      \* access points in one nmcli listing
MaxSsid  == 2      \* distinct SSIDs in one nmcli listing
MaxSignal == 2     \* signal values run over 1..MaxSignal
MaxWords == 2      \* words nmcli prints on stderr and stdout together

\* ------------------------------------------------------------- processes
FG   == <<"fg", 0>>        \* interactive process, main task (run_menu/get_aps)
CMD  == <<"scan", 0>>      \* `rofi-wifi scan`
DMN  == <<"daemon", 0>>    \* `rofi-wifi daemon`
Tasks    == {<<"task", i>> : i \in 1..MaxTasks}   \* tokio::spawn(do_scan)
Scanners == {FG, CMD} \cup Tasks                  \* callers of do_scan
Writers  == Scanners \cup {DMN}                   \* callers of cache::write
Nobody   == <<"none", 0>>

\* lists list_access_points can return (opaque, non-empty, distinct)
ScanLists == {[i \in 1..n |-> i] : n \in 1..MaxAPs}

\* ------------------------------------------------------------ file system
NoPid  == 0
\* a PID file that exists and holds no number (just created or truncated)
BadPid == -1
DaemonPid == 1
\* the `rofi-wifi daemon` processes, named by their process ids
Daemons == 1..MaxDaemons

VARIABLES
    now,        \* SystemTime::now() in seconds
    ttl,        \* cfg.cache_ttl
    pc,         \* position of every process
    lockHolder, \* owner of the flock on Config::lock_path()
    aps,        \* per writer: the list its list_access_points returned
    wts,        \* per writer: timestamp of the CacheFile being written
    fd,         \* per writer: where the file behind its open descriptor is
    cacheFile,  \* the file named by Config::cache_path()
    tmpFile,    \* the file named by cache_path.with_extension("tmp")
    fgPath,     \* branch the current/last get_aps took
    fgScan,     \* outcome of the scan-and-write of the current/last get_aps
    result,     \* value the last get_aps returned
    dmnWake,    \* time the daemon's sleep ends
    pidFile,    \* content of Config::pid_path()
    maxRetry,   \* cfg.max_retry
    cpc,        \* position of do_connect_new
    attempt,    \* loop variable of do_connect_new
    pass,       \* credential held by do_connect_new (0 is None)
    results,    \* ConnectResult of every connect_new call so far
    log,        \* notifications, prompts and external calls, in order
    mpc,        \* position of main / run_menu / handle_action
    force,      \* main's `force`
    nav,        \* Nav the last run_menu returned
    action,     \* MenuAction being handled in this iteration
    curr,       \* curr_ssid.is_some()
    saved,      \* the chosen network is among saved_connections()
    dpc,        \* position of every `rofi-wifi daemon` process
    lastIter,   \* per daemon process: outcome of its last loop iteration
    spc,        \* position of `rofi-wifi daemon-stop`
    spid,       \* the PID `rofi-wifi daemon-stop` read
    sigterm,    \* processes with a SIGTERM pending
    scanOut,    \* access points parsed from nmcli's output, in its order
    listed,     \* what list_access_points returned
    lpc,        \* position of list_access_points
    nmErr,      \* stderr of connect_new's nmcli, as words
    nmOut,      \* stdout of connect_new's nmcli, as words
    connRes,    \* the ConnectResult connect_new returned
    kpc         \* position of connect_new

scanVars == <<now, ttl, pc, lockHolder, aps, wts, fd, cacheFile, tmpFile,
              fgPath, fgScan, result, dmnWake, pidFile>>

connVars == <<maxRetry, cpc, attempt, pass, results, log>>

menuVars == <<mpc, force, nav, action, curr, saved>>

daemonVars == <<dpc, lastIter, spc, spid, sigterm>>

listVars == <<scanOut, listed, lpc>>

classVars == <<nmErr, nmOut, connRes, kpc>>

vars == <<scanVars, connVars, menuVars, daemonVars, listVars, classVars>>

\* ---------------------------------------------------------------- cache.rs
\* A file is absent, empty (created or truncated, nothing written yet), one
\* serialized CacheFile document, or the bytes of a shorter document written
\* over a longer one ("mixed").
Absent == [kind |-> "absent", ts |-> 0, aps |-> <<>>]
Empty  == [kind |-> "empty",  ts |-> 0, aps |-> <<>>]
Mixed  == [kind |-> "mixed",  ts |-> 0, aps |-> <<>>]
Doc(t, l) == [kind |-> "doc", ts |-> t, aps |-> l]

\* serde_json::from_str::<CacheFile> succeeds on exactly one whole document
Parses(f) == f.kind = "doc"
\* what a reader may see according to cache.rs 1, 14, 28: a whole snapshot
Complete(f) == f.kind = "doc"

\* write(2) at offset 0 of a file that holds `old`: a document shorter than
\* the bytes already there leaves their tail behind it
Overwrite(old, new) ==
    IF old.kind = "mixed" \/ (old.kind = "doc" /\ Len(old.aps) > Len(new.aps))
    THEN Mixed ELSE new

SaturatingSub(a, b) == IF a >= b THEN a - b ELSE 0

None == [some |-> FALSE, aps |-> <<>>]
Some(l) == [some |-> TRUE, aps |-> l]
UnwrapOrDefault(o) == IF o.some THEN o.aps ELSE <<>>

read_le(f, t, ttl_secs) ==
    IF f.kind = "absent" THEN None
    ELSE IF ~Parses(f) THEN None
    ELSE IF SaturatingSub(t, f.ts) <= ttl_secs THEN Some(f.aps) ELSE None

read_ignores_ttl(f, t, ttl_secs) ==
    IF f.kind = "absent" THEN None
    ELSE IF ~Parses(f) THEN None
    ELSE Some(f.aps)

\* cache.rs 33-48
read(f, t, ttl_secs) ==
    IF f.kind = "absent" THEN None
    ELSE IF ~Parses(f) THEN None
    ELSE IF SaturatingSub(t, f.ts) < ttl_secs THEN Some(f.aps) ELSE None

remaining_ttl_wrapping(f, t, ttl_secs) ==
    IF f.kind = "absent" THEN 0
    ELSE IF ~Parses(f) THEN 0
    ELSE ttl_secs - SaturatingSub(t, f.ts)

\* cache.rs 56-71
remaining_ttl(f, t, ttl_secs) ==
    IF f.kind = "absent" THEN 0
    ELSE IF ~Parses(f) THEN 0
    ELSE SaturatingSub(ttl_secs, SaturatingSub(t, f.ts))

\* Open descriptors follow their file: "tmp" while it is still named by the
\* temporary path, "cache" once a rename moved it to the cache path,
\* "orphan" once it has no name left.
AfterRenameFd(f) ==
    [p \in DOMAIN f |-> IF f[p] = "tmp" THEN "cache"
                        ELSE IF f[p] = "cache" THEN "orphan" ELSE f[p]]
AfterUnlinkFd(f) ==
    [p \in DOMAIN f |-> IF f[p] = "cache" THEN "orphan" ELSE f[p]]

\* where a writer continues once cache::write has returned
AfterWrite(p) == IF p = DMN THEN "sleep" ELSE "unlock"
\* where a do_scan caller continues once do_scan has returned
AfterScan(p) == IF p = FG THEN "reread" ELSE "idle"
\* daemon.rs 41: the daemon's iteration ends in time::sleep(ttl)
SleepUntil(p) == IF p = DMN THEN now + ttl ELSE dmnWake

\* ------------------------------------------------------------------- Init
ScanInitial ==
    /\ now = 0
    /\ ttl \in 0..MaxTTL
    /\ pc = [p \in Writers |-> IF p = FG THEN "menu"
                               ELSE IF p = DMN THEN "off" ELSE "idle"]
    /\ lockHolder = Nobody
    /\ aps = [p \in Writers |-> <<>>]
    /\ wts = [p \in Writers |-> 0]
    /\ fd = [p \in Writers |-> "none"]
    /\ cacheFile = Absent
    /\ tmpFile = Absent
    /\ fgPath = "none"
    /\ fgScan = "none"
    /\ result = <<>>
    /\ dmnWake = 0
    /\ pidFile = NoPid

\* no connect in progress
ConnIdle ==
    /\ cpc = "idle"
    /\ attempt = 0
    /\ pass = 0
    /\ results = <<>>
    /\ log = <<>>

\* config.rs 40: Config::default().max_retry
DefaultMaxRetry == 3

\* main.rs 71: `let mut force = false`, nothing shown yet
MenuInitial ==
    /\ mpc = "main"
    /\ force = FALSE
    /\ nav = "none"
    /\ action = "none"
    /\ curr = FALSE
    /\ saved = FALSE

\* connect_new is not running
ClassIdle ==
    /\ nmErr = <<>>
    /\ nmOut = <<>>
    /\ connRes = "none"
    /\ kpc = "idle"

\* list_access_points is not running
ListIdle ==
    /\ scanOut = <<>>
    /\ listed = <<>>
    /\ lpc = "idle"

\* no `rofi-wifi daemon` or `rofi-wifi daemon-stop` command has been run
DaemonsOff ==
    /\ dpc = [d \in Daemons |-> "off"]
    /\ lastIter = [d \in Daemons |-> "none"]
    /\ spc = "off"
    /\ spid = NoPid
    /\ sigterm = {}

InitScan ==
    /\ ScanInitial /\ ConnIdle /\ maxRetry = DefaultMaxRetry
    /\ MenuInitial /\ DaemonsOff /\ ListIdle /\ ClassIdle

\* ------------------------------------------------------------------ clock
Tick ==
    /\ now < MaxTime
    /\ now' = now + 1
    /\ UNCHANGED <<ttl, pc, lockHolder, aps, wts, fd, cacheFile, tmpFile,
                   fgPath, fgScan, result, dmnWake, pidFile>>
    /\ UNCHANGED connVars
    /\ UNCHANGED <<menuVars, daemonVars, listVars, classVars>>

\* ------------------------------------------------------- cache::write steps
\* cache.rs 27: write(2) of the document through the descriptor, close(2)
WriteData(p) ==
    /\ pc[p] = "wdata"
    /\ tmpFile' = IF fd[p] = "tmp"
                  THEN Overwrite(tmpFile, Doc(wts[p], aps[p])) ELSE tmpFile
    /\ cacheFile' = IF fd[p] = "cache"
                    THEN Overwrite(cacheFile, Doc(wts[p], aps[p])) ELSE cacheFile
    /\ fd' = [fd EXCEPT ![p] = "none"]
    /\ wts' = [wts EXCEPT ![p] = 0]
    /\ pc' = [pc EXCEPT ![p] = "rename"]
    /\ UNCHANGED <<now, ttl, lockHolder, aps, fgPath, fgScan, result, dmnWake,
                   pidFile>>
    /\ UNCHANGED connVars
    /\ UNCHANGED <<menuVars, daemonVars, listVars, classVars>>

\* cache.rs 28-29: rename(tmp, path); ENOENT when the temporary path is gone
WriteRename(p) ==
    /\ pc[p] = "rename"
    /\ IF tmpFile.kind = "absent"
       THEN /\ fgScan' = IF p = FG THEN "err" ELSE fgScan
            /\ UNCHANGED <<cacheFile, tmpFile, fd>>
       ELSE /\ fgScan' = IF p = FG THEN "ok" ELSE fgScan
            /\ cacheFile' = tmpFile
            /\ tmpFile' = Absent
            /\ fd' = AfterRenameFd(fd)
    /\ aps' = [aps EXCEPT ![p] = IF p = FG THEN @ ELSE <<>>]
    /\ dmnWake' = SleepUntil(p)
    /\ pc' = [pc EXCEPT ![p] = AfterWrite(p)]
    /\ UNCHANGED <<now, ttl, lockHolder, wts, fgPath, result, pidFile>>
    /\ UNCHANGED connVars
    /\ UNCHANGED <<menuVars, daemonVars, listVars, classVars>>

\* ------------------------------------------------------------ main.rs do_scan
\* main.rs 97-108: the lock file cannot be opened; do_scan returns
DoScanOpenErr(p) ==
    /\ p \in Scanners
    /\ pc[p] = "lock"
    /\ pc' = [pc EXCEPT ![p] = AfterScan(p)]
    /\ fgPath' = IF p = FG THEN "openerr" ELSE fgPath
    /\ UNCHANGED <<now, ttl, lockHolder, aps, wts, fd, cacheFile, tmpFile,
                   fgScan, result, dmnWake, pidFile>>
    /\ UNCHANGED connVars
    /\ UNCHANGED <<menuVars, daemonVars, listVars, classVars>>

\* flock(fd, LOCK_EX | LOCK_NB) == 0
flock_any(holder) == TRUE
flock(holder) == holder = Nobody

\* main.rs 110-114: flock(LOCK_EX | LOCK_NB) fails; do_scan returns
DoScanBusy(p) ==
    /\ p \in Scanners
    /\ pc[p] = "lock"
    /\ ~flock(lockHolder)
    /\ pc' = [pc EXCEPT ![p] = AfterScan(p)]
    /\ fgPath' = IF p = FG THEN "busy" ELSE fgPath
    /\ UNCHANGED <<now, ttl, lockHolder, aps, wts, fd, cacheFile, tmpFile,
                   fgScan, result, dmnWake, pidFile>>
    /\ UNCHANGED connVars
    /\ UNCHANGED <<menuVars, daemonVars, listVars, classVars>>

\* main.rs 110-114: flock succeeds
DoScanAcquire(p) ==
    /\ p \in Scanners
    /\ pc[p] = "lock"
    /\ flock(lockHolder)
    /\ lockHolder' = p
    /\ pc' = [pc EXCEPT ![p] = "scan"]
    /\ fgPath' = IF p = FG THEN "scan" ELSE fgPath
    /\ UNCHANGED <<now, ttl, aps, wts, fd, cacheFile, tmpFile, fgScan, result,
                   dmnWake, pidFile>>
    /\ UNCHANGED connVars
    /\ UNCHANGED <<menuVars, daemonVars, listVars, classVars>>

\* main.rs 116-119 / daemon.rs 36-38, cache.rs 16-27: rescan,
\* list_access_points gives Ok(aps); cache::write takes the timestamp,
\* serializes and opens the temporary file with O_CREAT|O_TRUNC
ScanOk(p) ==
    /\ pc[p] = "scan"
    /\ \E l \in ScanLists : aps' = [aps EXCEPT ![p] = l]
    /\ wts' = [wts EXCEPT ![p] = now]
    /\ tmpFile' = Empty
    /\ fd' = [fd EXCEPT ![p] = "tmp"]
    /\ pc' = [pc EXCEPT ![p] = "wdata"]
    /\ UNCHANGED <<now, ttl, lockHolder, cacheFile, fgPath, fgScan, result,
                   dmnWake, pidFile>>
    /\ UNCHANGED connVars
    /\ UNCHANGED <<menuVars, daemonVars, listVars, classVars>>

ScanOkWriteFailReturns(p) ==
    /\ pc[p] = "scan"
    /\ \E l \in ScanLists : aps' = [aps EXCEPT ![p] = IF p = FG THEN l ELSE <<>>]
    /\ fgScan' = IF p = FG THEN "err" ELSE fgScan
    /\ dmnWake' = SleepUntil(p)
    /\ pc' = [pc EXCEPT ![p] = IF p = DMN THEN "sleep" ELSE AfterScan(p)]
    /\ UNCHANGED <<now, ttl, lockHolder, wts, fd, cacheFile, tmpFile, fgPath,
                   result, pidFile>>
    /\ UNCHANGED connVars
    /\ UNCHANGED <<menuVars, daemonVars, listVars, classVars>>

\* main.rs 116-119 / daemon.rs 36-38, cache.rs 27: list_access_points gives
\* Ok(aps) but std::fs::write fails; `?` returns the error, which the caller
\* drops
ScanOkWriteFail(p) ==
    /\ pc[p] = "scan"
    /\ \E l \in ScanLists : aps' = [aps EXCEPT ![p] = IF p = FG THEN l ELSE <<>>]
    /\ fgScan' = IF p = FG THEN "err" ELSE fgScan
    /\ dmnWake' = SleepUntil(p)
    /\ pc' = [pc EXCEPT ![p] = AfterWrite(p)]
    /\ UNCHANGED <<now, ttl, lockHolder, wts, fd, cacheFile, tmpFile, fgPath,
                   result, pidFile>>
    /\ UNCHANGED connVars
    /\ UNCHANGED <<menuVars, daemonVars, listVars, classVars>>

ScanErrInvalidates(p) ==
    /\ pc[p] = "scan"
    /\ fgScan' = IF p = FG THEN "err" ELSE fgScan
    /\ dmnWake' = SleepUntil(p)
    /\ pc' = [pc EXCEPT ![p] = AfterWrite(p)]
    /\ cacheFile' = Absent
    /\ fd' = AfterUnlinkFd(fd)
    /\ UNCHANGED <<now, ttl, lockHolder, aps, wts, tmpFile, fgPath, result,
                   pidFile>>
    /\ UNCHANGED connVars
    /\ UNCHANGED <<menuVars, daemonVars, listVars, classVars>>

\* main.rs 116-117, 121 / daemon.rs 36-37, 39: rescan, list_access_points
\* gives Err
ScanErr(p) ==
    /\ pc[p] = "scan"
    /\ fgScan' = IF p = FG THEN "err" ELSE fgScan
    /\ dmnWake' = SleepUntil(p)
    /\ pc' = [pc EXCEPT ![p] = AfterWrite(p)]
    /\ UNCHANGED <<now, ttl, lockHolder, aps, wts, fd, cacheFile, tmpFile,
                   fgPath, result, pidFile>>
    /\ UNCHANGED connVars
    /\ UNCHANGED <<menuVars, daemonVars, listVars, classVars>>

\* main.rs 124-125: flock(LOCK_UN); do_scan returns
DoScanUnlock(p) ==
    /\ p \in Scanners
    /\ pc[p] = "unlock"
    /\ lockHolder' = Nobody
    /\ pc' = [pc EXCEPT ![p] = AfterScan(p)]
    /\ UNCHANGED <<now, ttl, aps, wts, fd, cacheFile, tmpFile, fgPath, fgScan,
                   result, dmnWake, pidFile>>
    /\ UNCHANGED connVars
    /\ UNCHANGED <<menuVars, daemonVars, listVars, classVars>>

\* main.rs 65-68: the `scan` subcommand is run
CmdScan ==
    /\ pc[CMD] = "idle"
    /\ pc' = [pc EXCEPT ![CMD] = "lock"]
    /\ UNCHANGED <<now, ttl, lockHolder, aps, wts, fd, cacheFile, tmpFile,
                   fgPath, fgScan, result, dmnWake, pidFile>>
    /\ UNCHANGED connVars
    /\ UNCHANGED <<menuVars, daemonVars, listVars, classVars>>

\* ------------------------------------------------------------ main.rs get_aps
\* cache.rs 51-53: remove_file, result ignored
invalidate(f) == Absent

\* main.rs 73, 128-133: run_menu calls get_aps(force_refresh); invalidate when forced
GetApsBegin(force_refresh) ==
    /\ pc[FG] = "menu"
    /\ \E t \in Tasks : pc[t] = "idle"
    /\ cacheFile' = IF force_refresh THEN invalidate(cacheFile) ELSE cacheFile
    /\ fd' = IF force_refresh THEN AfterUnlinkFd(fd) ELSE fd
    /\ pc' = [pc EXCEPT ![FG] = "read"]
    /\ result' = <<>>
    /\ UNCHANGED <<now, ttl, lockHolder, aps, wts, tmpFile, fgPath, fgScan,
                   dmnWake, pidFile>>
    /\ UNCHANGED connVars
    /\ UNCHANGED <<menuVars, daemonVars, listVars, classVars>>

\* tokio::spawn(async { do_scan().await }): the tasks made runnable
SpawnNone(idle) == {}
Spawn(idle) == {CHOOSE t \in idle : TRUE}

\* main.rs 135-138: the read hits; spawn one refresh task, return the list
GetApsHit ==
    /\ pc[FG] = "read"
    /\ read(cacheFile, now, ttl).some
    /\ LET new == Spawn({t \in Tasks : pc[t] = "idle"}) IN
           pc' = [p \in Writers |-> IF p = FG THEN "menu"
                                    ELSE IF p \in new THEN "lock" ELSE pc[p]]
    /\ result' = read(cacheFile, now, ttl).aps
    /\ UNCHANGED <<now, ttl, lockHolder, aps, wts, fd, cacheFile, tmpFile,
                   fgPath, fgScan, dmnWake, pidFile>>
    /\ UNCHANGED connVars
    /\ UNCHANGED <<menuVars, daemonVars, listVars, classVars>>

\* main.rs 135, 140-141: the read misses; do_scan().await
GetApsMiss ==
    /\ pc[FG] = "read"
    /\ ~read(cacheFile, now, ttl).some
    /\ pc' = [pc EXCEPT ![FG] = "lock"]
    /\ fgPath' = "miss"
    /\ UNCHANGED <<now, ttl, lockHolder, aps, wts, fd, cacheFile, tmpFile,
                   fgScan, result, dmnWake, pidFile>>
    /\ UNCHANGED connVars
    /\ UNCHANGED <<menuVars, daemonVars, listVars, classVars>>

\* main.rs 142-143: cache::read(ttl * 10).unwrap_or_default(); get_aps
\* returns and its locals are gone
GetApsReread ==
    /\ pc[FG] = "reread"
    /\ result' = UnwrapOrDefault(read(cacheFile, now, ttl * 10))
    /\ pc' = [pc EXCEPT ![FG] = "menu"]
    /\ fgPath' = "none"
    /\ fgScan' = "none"
    /\ aps' = [aps EXCEPT ![FG] = <<>>]
    /\ UNCHANGED <<now, ttl, lockHolder, wts, fd, cacheFile, tmpFile, dmnWake,
                   pidFile>>
    /\ UNCHANGED connVars
    /\ UNCHANGED <<menuVars, daemonVars, listVars, classVars>>

\* -------------------------------------------------------------- daemon.rs
\* daemon.rs 59-63: the PID file names a live process
is_running == pidFile = DaemonPid /\ pc[DMN] # "off"

\* daemon.rs 9-33: write the PID file and enter the loop
DaemonStart ==
    /\ pc[DMN] = "off"
    /\ ~is_running
    /\ pidFile' = DaemonPid
    /\ pc' = [pc EXCEPT ![DMN] = "scan"]
    /\ UNCHANGED <<now, ttl, lockHolder, aps, wts, fd, cacheFile, tmpFile,
                   fgPath, fgScan, result, dmnWake>>
    /\ UNCHANGED connVars
    /\ UNCHANGED <<menuVars, daemonVars, listVars, classVars>>

\* daemon.rs 41-42, 34: the sleep is over; next iteration
DaemonWake ==
    /\ pc[DMN] = "sleep"
    /\ now >= dmnWake
    /\ dmnWake' = 0
    /\ pc' = [pc EXCEPT ![DMN] = "scan"]
    /\ UNCHANGED <<now, ttl, lockHolder, aps, wts, fd, cacheFile, tmpFile,
                   fgPath, fgScan, result, pidFile>>
    /\ UNCHANGED connVars
    /\ UNCHANGED <<menuVars, daemonVars, listVars, classVars>>

\* ------------------------------------------------------------------ crash
\* where a process is once it is gone: the command can be run again
Gone(p) == IF p = DMN THEN "off" ELSE "idle"

\* cache.rs 16-29: the `scan` command or the daemon dies inside
\* cache::write, with the temporary file open and nothing written yet or
\* written and not yet renamed; the kernel closes its descriptors, which
\* drops its flock, and the PID file stays
Crash(p) ==
    /\ p \in {CMD, DMN}
    /\ pc[p] \in {"wdata", "rename"}
    /\ pc' = [pc EXCEPT ![p] = Gone(p)]
    /\ fd' = [fd EXCEPT ![p] = "none"]
    /\ aps' = [aps EXCEPT ![p] = <<>>]
    /\ wts' = [wts EXCEPT ![p] = 0]
    /\ lockHolder' = IF lockHolder = p THEN Nobody ELSE lockHolder
    /\ UNCHANGED <<now, ttl, cacheFile, tmpFile, fgPath, fgScan, result,
                   dmnWake, pidFile>>
    /\ UNCHANGED connVars
    /\ UNCHANGED <<menuVars, daemonVars, listVars, classVars>>

\* ------------------------------------------------------------------- Next
NextScan ==
    \/ Tick
    \/ \E force_refresh \in BOOLEAN : GetApsBegin(force_refresh)
    \/ GetApsHit
    \/ GetApsMiss
    \/ GetApsReread
    \/ CmdScan
    \/ DaemonStart
    \/ DaemonWake
    \/ \E p \in Scanners : DoScanOpenErr(p)
    \/ \E p \in Scanners : DoScanBusy(p)
    \/ \E p \in Scanners : DoScanAcquire(p)
    \/ \E p \in Scanners : DoScanUnlock(p)
    \/ \E p \in Writers : ScanOk(p)
    \/ \E p \in Writers : ScanOkWriteFail(p)
    \/ \E p \in Writers : ScanErr(p)
    \/ \E p \in Writers : WriteData(p)
    \/ \E p \in Writers : WriteRename(p)

SpecScan == InitScan /\ [][NextScan]_vars

\* a do_scan caller that holds the flock gets to run: the external scan
\* returns, the write and the rename complete, the unlock is reached
ScanFairness ==
    \A p \in Scanners :
        WF_vars(\/ ScanOk(p) \/ ScanOkWriteFail(p) \/ ScanErr(p)
                \/ WriteData(p) \/ WriteRename(p) \/ DoScanUnlock(p))

\* every step of NextScan that is not a step of the clock
NextScanNow ==
    \/ \E force_refresh \in BOOLEAN : GetApsBegin(force_refresh)
    \/ GetApsHit
    \/ GetApsMiss
    \/ GetApsReread
    \/ CmdScan
    \/ DaemonStart
    \/ DaemonWake
    \/ \E p \in Scanners : DoScanOpenErr(p)
    \/ \E p \in Scanners : DoScanBusy(p)
    \/ \E p \in Scanners : DoScanAcquire(p)
    \/ \E p \in Scanners : DoScanUnlock(p)
    \/ \E p \in Writers : ScanOk(p)
    \/ \E p \in Writers : ScanOkWriteFail(p)
    \/ \E p \in Writers : ScanErr(p)
    \/ \E p \in Writers : WriteData(p)
    \/ \E p \in Writers : WriteRename(p)

SpecScanFair == InitScan /\ [][NextScanNow]_vars /\ ScanFairness

\* the `scan` command and the daemon on their own, either of which may die
\* inside cache::write
NextCrash ==
    \/ Tick
    \/ CmdScan
    \/ DaemonStart
    \/ DaemonWake
    \/ DoScanAcquire(CMD)
    \/ DoScanUnlock(CMD)
    \/ \E p \in {CMD, DMN} : ScanOk(p)
    \/ \E p \in {CMD, DMN} : ScanErr(p)
    \/ \E p \in {CMD, DMN} : WriteData(p)
    \/ \E p \in {CMD, DMN} : WriteRename(p)
    \/ \E p \in {CMD, DMN} : Crash(p)

SpecCrash == InitScan /\ [][NextCrash]_vars


\* ----------------------------------------------------- main.rs do_connect_new
Creds == 1..MaxCred
ConnectResults == {"Success", "WrongPassword", "Timeout", "Failed"}
Event(e, n) == [ev |-> e, n |-> n]
\* nmcli.rs 181: the address get_ip() found, 0 when it found none ("未知")
Addresses == {0, 1}

\* main.rs 443: `for attempt in 1..=cfg.max_retry` admits this attempt
InRangeOffByOne(a, n) == a <= n + 1
InRange(a, n) == a <= n

\* main.rs 443-444: where iteration `a` of the loop starts: past the end of
\* the range, at the retry prompt (`attempt > 1`), or at the connect call
LoopHeadPromptsFirst(a, n) ==
    IF ~InRange(a, n) THEN "done" ELSE "prompt"
LoopHead(a, n) ==
    IF ~InRange(a, n) THEN "done"
    ELSE IF a > 1 THEN "prompt" ELSE "connect"

\* main.rs 466-487: where do_connect_new goes on a ConnectResult
AfterAttemptRetriesTimeout(r, a, n) ==
    CASE r = "Success" -> "post"
      [] r = "WrongPassword" -> LoopHead(a + 1, n)
      [] r = "Timeout" -> "prompt"
      [] r = "Failed" -> "done"
AfterAttempt(r, a, n) ==
    CASE r = "Success" -> "post"
      [] r = "WrongPassword" -> LoopHead(a + 1, n)
      [] r = "Timeout" -> "done"
      [] r = "Failed" -> "done"

\* main.rs 440-443: do_connect_new is called with the first credential
ConnectBegin(password) ==
    /\ cpc = "idle"
    /\ pass' = password
    /\ attempt' = 1
    /\ cpc' = LoopHead(1, maxRetry)
    /\ UNCHANGED <<maxRetry, results, log>>
    /\ UNCHANGED scanVars
    /\ UNCHANGED <<menuVars, daemonVars, listVars, classVars>>

\* main.rs 444-456: retry notification, prompt, a non-empty credential typed
RetryPrompt(p) ==
    /\ cpc = "prompt"
    /\ p \in Creds
    /\ pass' = p
    /\ log' = log \o <<Event("notify_retry", attempt), Event("prompt", attempt),
                       Event("typed", p)>>
    /\ cpc' = "connect"
    /\ UNCHANGED <<maxRetry, attempt, results>>
    /\ UNCHANGED scanVars
    /\ UNCHANGED <<menuVars, daemonVars, listVars, classVars>>

RetryCancelContinues ==
    /\ cpc = "prompt"
    /\ log' = log \o <<Event("notify_retry", attempt), Event("prompt", attempt),
                       Event("notify_cancelled", 0)>>
    /\ cpc' = "connect"
    /\ UNCHANGED <<maxRetry, attempt, pass, results>>
    /\ UNCHANGED scanVars
    /\ UNCHANGED <<menuVars, daemonVars, listVars, classVars>>

\* main.rs 444-460: retry notification, prompt cancelled (None) or left
\* empty; "cancelled" notification, return
RetryCancel ==
    /\ cpc = "prompt"
    /\ log' = log \o <<Event("notify_retry", attempt), Event("prompt", attempt),
                       Event("notify_cancelled", 0)>>
    /\ cpc' = "done"
    /\ UNCHANGED <<maxRetry, attempt, pass, results>>
    /\ UNCHANGED scanVars
    /\ UNCHANGED <<menuVars, daemonVars, listVars, classVars>>

\* main.rs 464-488, nmcli.rs 177-182: "connecting" notification, connect_new
\* (which asks get_ip for the address on success), act on its result
Attempt(r) ==
    /\ cpc = "connect"
    /\ results' = Append(results, r)
    /\ cpc' = AfterAttempt(r, attempt, maxRetry)
    /\ LET called == log \o <<Event("notify_connecting", attempt),
                              Event("connect", pass)>> IN
       CASE r = "Success" ->
                /\ \E ip \in Addresses : log' = Append(called, Event("get_ip", ip))
                /\ UNCHANGED attempt
         [] r = "WrongPassword" ->
                /\ log' = IF attempt = maxRetry
                          THEN Append(called, Event("notify_final", maxRetry))
                          ELSE called
                /\ attempt' = attempt + 1
         [] r = "Timeout" ->
                /\ log' = Append(called, Event("notify_timeout", 0))
                /\ UNCHANGED attempt
         [] r = "Failed" ->
                /\ log' = Append(called, Event("notify_failed", 0))
                /\ UNCHANGED attempt
    /\ UNCHANGED <<maxRetry, pass>>
    /\ UNCHANGED scanVars
    /\ UNCHANGED <<menuVars, daemonVars, listVars, classVars>>

\* the events of handle_post_connect_with_ip(ssid, ip, cfg)
PostConnectEventsNotifyFirst(ip) ==
    <<Event("notify_connected", ip), Event("ping", 0), Event("auto_vpn", 0)>>
\* main.rs 496-507: ping_check, "connected" notification with the address
\* and the probe's outcome, try_auto_vpn
PostConnectEvents(ip) ==
    <<Event("ping", 0), Event("notify_connected", ip), Event("auto_vpn", 0)>>

\* main.rs 467-469: handle_post_connect_with_ip(ssid, &ip, cfg), return
PostConnect ==
    /\ cpc = "post"
    /\ log' = log \o PostConnectEvents(log[Len(log)].n)
    /\ cpc' = "done"
    /\ UNCHANGED <<maxRetry, attempt, pass, results>>
    /\ UNCHANGED scanVars
    /\ UNCHANGED <<menuVars, daemonVars, listVars, classVars>>

InitConnect ==
    /\ ScanInitial /\ ttl = MaxTTL
    /\ ConnIdle
    /\ maxRetry \in 0..MaxCeiling
    /\ MenuInitial /\ DaemonsOff /\ ListIdle /\ ClassIdle

NextConnect ==
    \/ \E password \in {0} \cup Creds : ConnectBegin(password)
    \/ \E p \in Creds : RetryPrompt(p)
    \/ RetryCancel
    \/ \E r \in ConnectResults : Attempt(r)
    \/ PostConnect

SpecConnect == InitConnect /\ [][NextConnect]_vars

\* ------------------------------------------- main.rs main, run_menu (menu loop)
\* prompts and panels handle_action and handle_hotspot open below the main list
NestedPrompts == {"manual_input", "disconnect_confirm", "forget_list",
                  "forget_confirm", "hotspot_off_confirm", "hotspot_name",
                  "hotspot_pass", "open_warning", "password_prompt",
                  "details_panel", "qr_panel"}

\* main.rs 73-81: `force` once run_menu has returned n
ForceAfterAnyReturn(n, f) == IF n = "Quit" THEN f ELSE TRUE
ForceAfter(n, f) == IF n = "Quit" THEN f ELSE n = "Refresh"

\* main.rs 73-81: run_menu returns Ok(n); main breaks on Quit, loops otherwise
Return(n) ==
    /\ nav' = n
    /\ force' = ForceAfter(n, force)
    /\ mpc' = IF n = "Quit" THEN "exit" ELSE "main"

\* control moves inside run_menu / handle_action
Goto(s) == mpc' = s /\ UNCHANGED <<force, nav>>

Notify(e) == log' = Append(log, Event(e, 0))

\* main.rs 73, 149-151, 128-133: main calls run_menu(force), which calls
\* get_aps(force): invalidate when forced.  The log restarts with the
\* iteration.
RunMenu ==
    /\ mpc = "main"
    /\ cacheFile' = IF force THEN invalidate(cacheFile) ELSE cacheFile
    /\ fd' = IF force THEN AfterUnlinkFd(fd) ELSE fd
    /\ result' = <<>>
    /\ fgPath' = "none" /\ fgScan' = "none"
    /\ Goto("get_aps")
    /\ action' = "none" /\ curr' = FALSE /\ saved' = FALSE
    /\ cpc' = "idle" /\ attempt' = 0 /\ pass' = 0 /\ results' = <<>>
    /\ log' = <<>>
    /\ UNCHANGED <<now, ttl, pc, lockHolder, aps, wts, tmpFile, dmnWake,
                   pidFile, maxRetry>>
    /\ UNCHANGED <<daemonVars, listVars, classVars>>

\* main.rs 135-138: the read hits; get_aps returns the cached list (the
\* refresh task it spawns belongs to SpecScan)
MenuGetApsHit ==
    /\ mpc = "get_aps"
    /\ read(cacheFile, now, ttl).some
    /\ result' = read(cacheFile, now, ttl).aps
    /\ fgPath' = "hit"
    /\ Goto("radio_state")
    /\ UNCHANGED <<now, ttl, pc, lockHolder, aps, wts, fd, cacheFile, tmpFile,
                   fgScan, dmnWake, pidFile>>
    /\ UNCHANGED <<action, curr, saved>>
    /\ UNCHANGED connVars
    /\ UNCHANGED <<daemonVars, listVars, classVars>>

\* outcomes of do_scan: the lock file cannot be opened, the lock is held by
\* another process, the listing fails, the cache write fails, all succeed
ScanOutcomes == {"openerr", "busy", "listerr", "writeerr", "ok"}

\* main.rs 135, 140-143, 93-125: the read misses; do_scan().await ends one
\* of these ways, then cache::read(ttl * 10).unwrap_or_default()
MenuGetApsMiss(o, l) ==
    /\ mpc = "get_aps"
    /\ ~read(cacheFile, now, ttl).some
    /\ o \in ScanOutcomes /\ l \in ScanLists
    /\ cacheFile' = IF o = "ok" THEN Doc(now, l) ELSE cacheFile
    /\ result' = UnwrapOrDefault(read(cacheFile', now, ttl * 10))
    /\ fgPath' = IF o \in {"openerr", "busy"} THEN o ELSE "scan"
    /\ fgScan' = IF o = "ok" THEN "ok"
                 ELSE IF o \in {"listerr", "writeerr"} THEN "err" ELSE "none"
    /\ Goto("radio_state")
    /\ UNCHANGED <<now, ttl, pc, lockHolder, aps, wts, fd, tmpFile, dmnWake,
                   pidFile>>
    /\ UNCHANGED <<action, curr, saved>>
    /\ UNCHANGED connVars
    /\ UNCHANGED <<daemonVars, listVars, classVars>>

\* main.rs 150-154, 211-219, nmcli.rs 77-89, 92-103: radio_state and
\* current_ssid answer and the main list is shown
RunMenuJoin(c) ==
    /\ mpc = "radio_state"
    /\ curr' = c
    /\ Goto("main_menu")
    /\ UNCHANGED <<action, saved>>
    /\ UNCHANGED connVars
    /\ UNCHANGED scanVars
    /\ UNCHANGED <<daemonVars, listVars, classVars>>

\* main.rs 152, 270, nmcli.rs 78-82: nmcli cannot be spawned and
\* radio_state unwraps the error
RadioStatePanic ==
    /\ mpc \in {"radio_state", "toggle_radio_state"}
    /\ Goto("panic")
    /\ UNCHANGED <<action, curr, saved>>
    /\ UNCHANGED connVars
    /\ UNCHANGED scanVars
    /\ UNCHANGED <<daemonVars, listVars, classVars>>

\* main.rs 222-225: the main list is cancelled (or rofi gives nothing)
MainMenuCancel ==
    /\ mpc = "main_menu"
    /\ Return("Quit")
    /\ UNCHANGED <<action, curr, saved>>
    /\ UNCHANGED connVars
    /\ UNCHANGED scanVars
    /\ UNCHANGED <<daemonVars, listVars, classVars>>

\* ---------------------------------------------------- main.rs handle_action
\* what handle_action itself never touches
Frame ==
    /\ UNCHANGED scanVars
    /\ UNCHANGED <<daemonVars, listVars, classVars>>
    /\ UNCHANGED <<maxRetry, cpc, attempt, results>>

\* main.rs 227, 233, 269-270: the toggle line is chosen
HandleToggleRadio ==
    /\ mpc = "main_menu"
    /\ action' = "ToggleRadio"
    /\ Goto("toggle_radio_state")
    /\ UNCHANGED <<curr, saved, pass, log>>
    /\ Frame

\* main.rs 270: radio_state answers
ToggleRadioState ==
    /\ mpc = "toggle_radio_state"
    /\ Goto("set_radio")
    /\ UNCHANGED <<action, curr, saved, pass, log>>
    /\ Frame

\* main.rs 271-277, nmcli.rs 241-248: nmcli ran (whatever its exit status);
\* notification, Refresh
SetRadioOk ==
    /\ mpc = "set_radio"
    /\ Notify("notify_radio")
    /\ Return("Refresh")
    /\ UNCHANGED <<action, curr, saved, pass>>
    /\ Frame

\* main.rs 271, 228, 73: nmcli cannot be spawned; `?` returns the error from
\* handle_action, run_menu and main
SetRadioErr ==
    /\ mpc = "set_radio"
    /\ Goto("error")
    /\ UNCHANGED <<action, curr, saved, pass, log>>
    /\ Frame

\* main.rs 227, 234, 248, 251, 281-283: the refresh line, or a line that
\* names no access point
HandleRefresh ==
    /\ mpc = "main_menu"
    /\ action' = "Refresh"
    /\ Return("Refresh")
    /\ UNCHANGED <<curr, saved, pass, log>>
    /\ Frame

\* main.rs 227, 235, 286-288: manual entry; the input prompt opens
HandleManual ==
    /\ mpc = "main_menu"
    /\ action' = "Manual"
    /\ Goto("manual_input")
    /\ UNCHANGED <<curr, saved, pass, log>>
    /\ Frame

\* main.rs 289-303: a non-empty line is typed; an empty SSID is an error,
\* otherwise do_connect_new is called with the password typed after the
\* comma, if any
ManualInput(ssid_empty, p) ==
    /\ mpc = "manual_input"
    /\ p \in {0} \cup Creds
    /\ IF ssid_empty
       THEN /\ Notify("notify_error")
            /\ Return("Back")
            /\ UNCHANGED pass
       ELSE /\ pass' = p
            /\ Goto("do_connect_new")
            /\ UNCHANGED log
    /\ UNCHANGED <<action, curr, saved>>
    /\ Frame

\* main.rs 227, 236, 307-316: disconnect; nothing connected, or the
\* confirmation opens
HandleDisconnect ==
    /\ mpc = "main_menu"
    /\ action' = "Disconnect"
    /\ IF curr
       THEN Goto("disconnect_confirm") /\ UNCHANGED log
       ELSE Notify("notify_hint") /\ Return("Back")
    /\ UNCHANGED <<curr, saved, pass>>
    /\ Frame

\* main.rs 316-321, 433: confirmed; nmcli disconnect succeeds or fails
DisconnectConfirmed(ok) ==
    /\ mpc = "disconnect_confirm"
    /\ Notify(IF ok THEN "notify_disconnected" ELSE "notify_failed")
    /\ Return("Back")
    /\ UNCHANGED <<action, curr, saved, pass>>
    /\ Frame

\* main.rs 227, 237, 325-332: forget; no saved profile (or the query
\* failed), or the list of profiles opens
HandleForget(none_saved) ==
    /\ mpc = "main_menu"
    /\ action' = "Forget"
    /\ IF none_saved
       THEN Notify("notify_hint") /\ Return("Back")
       ELSE Goto("forget_list") /\ UNCHANGED log
    /\ UNCHANGED <<curr, saved, pass>>
    /\ Frame

\* main.rs 332-338: a profile is chosen; the confirmation opens
ForgetChosen ==
    /\ mpc = "forget_list"
    /\ Goto("forget_confirm")
    /\ UNCHANGED <<action, curr, saved, pass, log>>
    /\ Frame

\* main.rs 338-343, 433: confirmed; nmcli delete succeeds or fails
ForgetConfirmed(ok) ==
    /\ mpc = "forget_confirm"
    /\ Notify(IF ok THEN "notify_deleted" ELSE "notify_failed")
    /\ Return("Back")
    /\ UNCHANGED <<action, curr, saved, pass>>
    /\ Frame

\* main.rs 227, 238, 347-349, 532-554: hotspot; one is active (confirmation
\* opens), a profile exists (brought up), or the name prompt opens
HandleHotspot(h) ==
    /\ mpc = "main_menu"
    /\ h \in {"active", "profile", "none"}
    /\ action' = "Hotspot"
    /\ CASE h = "active" -> Goto("hotspot_off_confirm") /\ UNCHANGED log
         [] h = "profile" -> Notify("notify_hotspot") /\ Return("Back")
         [] h = "none" -> Goto("hotspot_name") /\ UNCHANGED log
    /\ UNCHANGED <<curr, saved, pass>>
    /\ Frame

\* main.rs 534-541, 433: switching the active hotspot off is confirmed
HotspotOffConfirmed ==
    /\ mpc = "hotspot_off_confirm"
    /\ Notify("notify_hotspot")
    /\ Return("Back")
    /\ UNCHANGED <<action, curr, saved, pass>>
    /\ Frame

\* main.rs 554-559: a hotspot name is typed; the password prompt opens
HotspotNamed ==
    /\ mpc = "hotspot_name"
    /\ Goto("hotspot_pass")
    /\ UNCHANGED <<action, curr, saved, pass, log>>
    /\ Frame

\* main.rs 559-570, 433: a hotspot password is typed; too short, or
\* create_hotspot succeeds or fails
HotspotPassTyped(short, ok) ==
    /\ mpc = "hotspot_pass"
    /\ Notify(IF short THEN "notify_error"
              ELSE IF ok THEN "notify_hotspot" ELSE "notify_failed")
    /\ Return("Back")
    /\ UNCHANGED <<action, curr, saved, pass>>
    /\ Frame

\* outcomes of get_details: get_dev_info unwraps a spawn error, a later
\* query fails, all succeed
DetailsOutcomes == {"panic", "err", "ok"}

\* main.rs 227, 239, 353-377, nmcli.rs 346-391: details
HandleDetails(r) ==
    /\ mpc = "main_menu"
    /\ r \in DetailsOutcomes
    /\ action' = "Details"
    /\ IF ~curr
       THEN Notify("notify_hint") /\ Return("Back")
       ELSE CASE r = "panic" -> Notify("notify_reading") /\ Goto("panic")
              [] r = "err" ->
                     /\ log' = log \o <<Event("notify_reading", 0),
                                        Event("notify_failed", 0)>>
                     /\ Return("Back")
              [] r = "ok" -> Notify("notify_reading") /\ Goto("details_panel")
    /\ UNCHANGED <<curr, saved, pass>>
    /\ Frame

\* main.rs 227, 240, 380-399: QR code; wifi_qr fails or the panel opens
HandleQrCode(ok) ==
    /\ mpc = "main_menu"
    /\ action' = "QrCode"
    /\ IF ~curr
       THEN Notify("notify_hint") /\ Return("Back")
       ELSE IF ok
       THEN Goto("qr_panel") /\ UNCHANGED log
       ELSE Notify("notify_failed") /\ Return("Back")
    /\ UNCHANGED <<curr, saved, pass>>
    /\ Frame

\* main.rs 411-429: after saved_connections(): the saved profile is brought
\* up; otherwise a network that needs a password gets the password prompt
\* and an open one goes to do_connect_new without a password
ConnectPathIgnoresSaved(sv, open) ==
    IF ~open THEN "password_prompt" ELSE "do_connect_new"
ConnectPath(sv, open) ==
    IF sv THEN "connect_saved"
    ELSE IF ~open THEN "password_prompt" ELSE "do_connect_new"

\* main.rs 227, 241-246, 402-411: a line naming an access point is chosen;
\* an open network first gets the warning; sv: saved_connections() names it
HandleConnect(open, sv) ==
    /\ mpc = "main_menu"
    /\ action' = "Connect"
    /\ IF open
       THEN Goto("open_warning") /\ UNCHANGED saved
       ELSE Goto(ConnectPath(sv, FALSE)) /\ saved' = sv
    /\ UNCHANGED <<curr, pass, log>>
    /\ Frame

\* main.rs 406-411: the warning for an open network is confirmed
OpenWarningAccepted(sv) ==
    /\ mpc = "open_warning"
    /\ saved' = sv
    /\ Goto(ConnectPath(sv, TRUE))
    /\ UNCHANGED <<action, curr, pass, log>>
    /\ Frame

\* main.rs 413-417, 491-507, 433, nmcli.rs 144-160: "connecting"
\* notification, connect_saved; Ok: address, probe, "connected" notification;
\* Err: one failure notification
ConnectSaved(ok) ==
    /\ mpc = "connect_saved"
    /\ LET called == log \o <<Event("notify_connecting", 0),
                              Event("connect_saved", 0)>> IN
       IF ok
       THEN \E ip \in Addresses :
                log' = called \o <<Event("get_ip", ip)>> \o PostConnectEvents(ip)
       ELSE log' = Append(called, Event("notify_failed", 0))
    /\ Return("Back")
    /\ UNCHANGED <<action, curr, saved, pass>>
    /\ Frame

\* main.rs 421-428: a non-empty password is typed at the first prompt
PasswordTyped(p) ==
    /\ mpc = "password_prompt"
    /\ p \in Creds
    /\ pass' = p
    /\ Goto("do_connect_new")
    /\ UNCHANGED <<action, curr, saved, log>>
    /\ Frame

\* main.rs 303, 428: do_connect_new(ssid, pass, cfg) is entered
MenuConnectBegin ==
    /\ mpc = "do_connect_new"
    /\ ConnectBegin(pass)

\* main.rs 303, 428, 433: do_connect_new has returned
DoConnectNewReturn ==
    /\ mpc = "do_connect_new"
    /\ cpc = "done"
    /\ Return("Back")
    /\ UNCHANGED <<action, curr, saved, pass, log>>
    /\ Frame

\* what handle_action returns when the nested prompt s is cancelled
CancelNavQuits(s) == IF s = "password_prompt" THEN "Quit" ELSE "Back"
\* main.rs 290, 316, 335, 338, 373, 396, 407, 423, 433, 534, 541, 556, 561
CancelNav(s) == "Back"

\* a nested prompt is cancelled, left empty or declined, a panel is closed
PromptCancel ==
    /\ mpc \in NestedPrompts
    /\ Notify("cancel")
    /\ Return(CancelNav(mpc))
    /\ UNCHANGED <<action, curr, saved, pass>>
    /\ Frame

InitMenu ==
    /\ ScanInitial /\ ConnIdle /\ maxRetry = DefaultMaxRetry
    /\ MenuInitial /\ DaemonsOff /\ ListIdle /\ ClassIdle

NextMenu ==
    \/ RunMenu
    \/ MenuGetApsHit
    \/ \E o \in ScanOutcomes, l \in ScanLists : MenuGetApsMiss(o, l)
    \/ \E c \in BOOLEAN : RunMenuJoin(c)
    \/ RadioStatePanic
    \/ MainMenuCancel
    \/ HandleToggleRadio
    \/ ToggleRadioState
    \/ SetRadioOk
    \/ SetRadioErr
    \/ HandleRefresh
    \/ HandleManual
    \/ \E e \in BOOLEAN, p \in {0} \cup Creds : ManualInput(e, p)
    \/ HandleDisconnect
    \/ \E ok \in BOOLEAN : DisconnectConfirmed(ok)
    \/ \E n \in BOOLEAN : HandleForget(n)
    \/ ForgetChosen
    \/ \E ok \in BOOLEAN : ForgetConfirmed(ok)
    \/ \E h \in {"active", "profile", "none"} : HandleHotspot(h)
    \/ HotspotOffConfirmed
    \/ HotspotNamed
    \/ \E short \in BOOLEAN, ok \in BOOLEAN : HotspotPassTyped(short, ok)
    \/ \E r \in DetailsOutcomes : HandleDetails(r)
    \/ \E ok \in BOOLEAN : HandleQrCode(ok)
    \/ \E open \in BOOLEAN, sv \in BOOLEAN : HandleConnect(open, sv)
    \/ \E sv \in BOOLEAN : OpenWarningAccepted(sv)
    \/ \E ok \in BOOLEAN : ConnectSaved(ok)
    \/ \E p \in Creds : PasswordTyped(p)
    \/ MenuConnectBegin
    \/ \E p \in Creds : RetryPrompt(p)
    \/ RetryCancel
    \/ \E r \in ConnectResults : Attempt(r)
    \/ PostConnect
    \/ DoConnectNewReturn
    \/ PromptCancel

SpecMenu == InitMenu /\ [][NextMenu]_vars

\* ------------------------------------------------------ daemon.rs start
\* daemon.rs 65-69: the PID the file holds, NoPid (None) when it is missing
\* or holds no number
read_pid == IF pidFile = BadPid THEN NoPid ELSE pidFile

\* positions of a daemon process that has not terminated
Alive == {"start", "write", "writing", "writing_orphan", "loop", "sleep"}

\* daemon.rs 61: kill(pid, 0) == 0, a live process has this PID
kill0(pid) == pid \in Daemons /\ dpc[pid] \in Alive

is_running_pid_neq == read_pid # NoPid /\ ~kill0(read_pid)

\* daemon.rs 59-63
is_running_pid == read_pid # NoPid /\ kill0(read_pid)

\* unlink(2) of the PID path: a descriptor opened by std::fs::write and not
\* yet written through now refers to a file without a name
AfterUnlinkPid(f) ==
    [d \in DOMAIN f |-> IF f[d] = "writing" THEN "writing_orphan" ELSE f[d]]

\* what a step of a daemon process leaves alone besides the PID file, the
\* cache, the positions and the pending signals
DaemonFrame ==
    /\ UNCHANGED <<now, ttl, pc, lockHolder, aps, wts, fd, tmpFile, fgPath,
                   fgScan, result, dmnWake>>
    /\ UNCHANGED connVars
    /\ UNCHANGED menuVars
    /\ UNCHANGED <<spc, spid>>
    /\ UNCHANGED <<listVars, classVars>>

\* main.rs 63: `rofi-wifi daemon` is run; the process has PID d
DaemonCmd(d) ==
    /\ dpc[d] = "off"
    /\ dpc' = [dpc EXCEPT ![d] = "start"]
    /\ UNCHANGED <<pidFile, cacheFile, lastIter, sigterm>>
    /\ DaemonFrame

\* daemon.rs 10-16: is_running; "already running" and return, or go on
StartCheck(d) ==
    /\ dpc[d] = "start"
    /\ dpc' = [dpc EXCEPT ![d] = IF is_running_pid THEN "already" ELSE "write"]
    /\ UNCHANGED <<pidFile, cacheFile, lastIter, sigterm>>
    /\ DaemonFrame

\* daemon.rs 20: std::fs::write opens the PID file with O_CREAT|O_TRUNC
StartCreatePid(d) ==
    /\ dpc[d] = "write"
    /\ pidFile' = BadPid
    /\ dpc' = [dpc EXCEPT ![d] = "writing"]
    /\ UNCHANGED <<cacheFile, lastIter, sigterm>>
    /\ DaemonFrame

\* daemon.rs 20-33: std::fs::write writes the own PID through the
\* descriptor (PIDs taken to have the same number of digits); then the
\* signal handler is installed and the loop entered
StartWritePid(d) ==
    /\ dpc[d] \in {"writing", "writing_orphan"}
    /\ pidFile' = IF dpc[d] = "writing" THEN d ELSE pidFile
    /\ dpc' = [dpc EXCEPT ![d] = "loop"]
    /\ UNCHANGED <<cacheFile, lastIter, sigterm>>
    /\ DaemonFrame

\* daemon.rs 20: the PID file cannot be opened; `?` returns the error
StartWriteErr(d) ==
    /\ dpc[d] = "write"
    /\ dpc' = [dpc EXCEPT ![d] = "failed"]
    /\ UNCHANGED <<pidFile, cacheFile, lastIter, sigterm>>
    /\ DaemonFrame

\* daemon.rs 37-40: what an iteration's listing and cache write came to
IterOutcomes == {"ok", "listerr", "writeerr"}

AfterIterationFailureReturns(outcome) ==
    IF outcome = "ok" THEN "sleep" ELSE "failed"

\* daemon.rs 38-41: both match arms fall through to time::sleep
AfterIteration(outcome) == "sleep"

\* daemon.rs 34-41, cache.rs 15-30: one iteration: rescan, list, write the
\* cache when the listing succeeded, go to sleep
DaemonIteration(d, outcome) ==
    /\ dpc[d] = "loop"
    /\ \E l \in ScanLists :
           cacheFile' = IF outcome = "ok" THEN Doc(now, l) ELSE cacheFile
    /\ dpc' = [dpc EXCEPT ![d] = AfterIteration(outcome)]
    /\ lastIter' = [lastIter EXCEPT ![d] = outcome]
    /\ UNCHANGED <<pidFile, sigterm>>
    /\ DaemonFrame

\* daemon.rs 41-42, 34: the sleep is over
DaemonSleepOver(d) ==
    /\ dpc[d] = "sleep"
    /\ dpc' = [dpc EXCEPT ![d] = "loop"]
    /\ UNCHANGED <<pidFile, cacheFile, lastIter, sigterm>>
    /\ DaemonFrame

\* daemon.rs 25-28: the signal handler (Ctrl-C, or a pending SIGTERM in a
\* build whose handler covers it) removes the PID file and exits
DaemonSignal(d) ==
    /\ dpc[d] \in {"loop", "sleep"}
    /\ pidFile' = NoPid
    /\ dpc' = AfterUnlinkPid([dpc EXCEPT ![d] = "exited"])
    /\ sigterm' = sigterm \ {d}
    /\ UNCHANGED <<cacheFile, lastIter>>
    /\ DaemonFrame

\* daemon.rs 53: a pending SIGTERM takes its default action (no handler
\* installed yet, or one that does not cover SIGTERM): the process ends
\* and cleans nothing up
DaemonKilled(d) ==
    /\ d \in sigterm
    /\ dpc[d] \in Alive
    /\ dpc' = [dpc EXCEPT ![d] = "killed"]
    /\ sigterm' = sigterm \ {d}
    /\ UNCHANGED <<pidFile, cacheFile, lastIter>>
    /\ DaemonFrame

\* ------------------------------------------------------- daemon.rs stop
\* what a step of `rofi-wifi daemon-stop` leaves alone besides the PID file, its
\* own position and the pending signals
StopFrame ==
    /\ UNCHANGED <<now, ttl, pc, lockHolder, aps, wts, fd, tmpFile, fgPath,
                   fgScan, result, dmnWake, cacheFile>>
    /\ UNCHANGED connVars
    /\ UNCHANGED menuVars
    /\ UNCHANGED lastIter
    /\ UNCHANGED <<listVars, classVars>>

\* main.rs 64: `rofi-wifi daemon-stop` is run
StopCmd ==
    /\ spc = "off"
    /\ spc' = "exists"
    /\ UNCHANGED <<pidFile, dpc, spid, sigterm>>
    /\ StopFrame

\* daemon.rs 47-50: no PID file: "not running", return Ok
StopExists ==
    /\ spc = "exists"
    /\ spc' = IF pidFile = NoPid THEN "notrunning" ELSE "read"
    /\ UNCHANGED <<pidFile, dpc, spid, sigterm>>
    /\ StopFrame

StopReadDefaultsPid ==
    /\ spc = "read"
    /\ spid' = IF read_pid = NoPid THEN DaemonPid ELSE read_pid
    /\ spc' = "kill"
    /\ UNCHANGED <<pidFile, dpc, sigterm>>
    /\ StopFrame

\* daemon.rs 51: read_pid; None becomes the error "cannot read PID", which
\* `?` returns
StopRead ==
    /\ spc = "read"
    /\ spid' = read_pid
    /\ spc' = IF read_pid = NoPid THEN "err_read" ELSE "kill"
    /\ UNCHANGED <<pidFile, dpc, sigterm>>
    /\ StopFrame

\* daemon.rs 53: kill(pid, SIGTERM), result ignored; the signal stays
\* pending for a live process and is lost otherwise
StopKill ==
    /\ spc = "kill"
    /\ sigterm' = IF kill0(spid) THEN sigterm \cup {spid} ELSE sigterm
    /\ spc' = "remove"
    /\ UNCHANGED <<pidFile, dpc, spid>>
    /\ StopFrame

\* daemon.rs 54-56: remove_file; ENOENT is returned by `?`, otherwise
\* "stopped" and Ok
StopRemove ==
    /\ spc = "remove"
    /\ IF pidFile = NoPid
       THEN /\ spc' = "err_remove"
            /\ UNCHANGED <<pidFile, dpc>>
       ELSE /\ spc' = "stopped"
            /\ pidFile' = NoPid
            /\ dpc' = AfterUnlinkPid(dpc)
    /\ UNCHANGED <<spid, sigterm>>
    /\ StopFrame

InitDaemon ==
    /\ ScanInitial /\ ttl = MaxTTL /\ ConnIdle /\ maxRetry = DefaultMaxRetry
    /\ MenuInitial /\ DaemonsOff /\ ListIdle /\ ClassIdle

NextDaemon ==
    \/ \E d \in Daemons : DaemonCmd(d)
    \/ \E d \in Daemons : StartCheck(d)
    \/ \E d \in Daemons : StartCreatePid(d)
    \/ \E d \in Daemons : StartWritePid(d)
    \/ \E d \in Daemons : StartWriteErr(d)
    \/ \E d \in Daemons, o \in IterOutcomes : DaemonIteration(d, o)
    \/ \E d \in Daemons : DaemonSleepOver(d)
    \/ \E d \in Daemons : DaemonSignal(d)
    \/ \E d \in Daemons : DaemonKilled(d)
    \/ StopCmd
    \/ StopExists
    \/ StopRead
    \/ StopKill
    \/ StopRemove

SpecDaemon == InitDaemon /\ [][NextDaemon]_vars

\* the daemon commands on their own: starts, the loop and Ctrl-C
NextDaemonLoop ==
    \/ \E d \in Daemons : DaemonCmd(d)
    \/ \E d \in Daemons : StartCheck(d)
    \/ \E d \in Daemons : StartCreatePid(d)
    \/ \E d \in Daemons : StartWritePid(d)
    \/ \E d \in Daemons : StartWriteErr(d)
    \/ \E d \in Daemons, o \in IterOutcomes : DaemonIteration(d, o)
    \/ \E d \in Daemons : DaemonSleepOver(d)
    \/ \E d \in Daemons : DaemonSignal(d)

\* tokio runs the loop's future to its next await, and the timer of
\* time::sleep fires: an iteration or a wake-up that stays possible happens
DaemonFairness ==
    \A d \in Daemons :
        /\ WF_vars(\E o \in IterOutcomes : DaemonIteration(d, o))
        /\ WF_vars(DaemonSleepOver(d))

SpecDaemonFair == InitDaemon /\ [][NextDaemonLoop]_vars /\ DaemonFairness

\* -------------------------------------------- nmcli.rs list_access_points
\* types.rs 7-13: an AccessPoint as far as sorting and deduplication read
\* it (ssid, signal, in_use); security and bars travel along unread
APs ==
    [ssid : 1..MaxSsid, signal : 1..MaxSignal, in_use : BOOLEAN]

RECURSIVE SeqsUpTo(_, _)
\* the sequences over S of length at most n
SeqsUpTo(S, n) ==
    IF n = 0 THEN {<<>>}
    ELSE LET shorter == SeqsUpTo(S, n - 1) IN
         shorter \cup {Append(q, x) : q \in shorter, x \in S}

\* nmcli.rs 33-38, 49-75: what parse_ap_line yields for the lines of one
\* listing; nmcli marks at most one line as in use
ScanOutputs ==
    {q \in SeqsUpTo(APs, MaxLines) :
        Cardinality({i \in DOMAIN q : q[i].in_use}) <= 1}

\* nmcli.rs 41: the comparator says Less: in use first, then the stronger
\* signal
Before(a, b) ==
    \/ a.in_use /\ ~b.in_use
    \/ a.in_use = b.in_use /\ a.signal > b.signal

RECURSIVE Insert(_, _)
\* slice::sort_by is stable: x, which came after all of q, goes behind the
\* elements it is not Less than
Insert(x, q) ==
    IF q = <<>> THEN <<x>>
    ELSE IF Before(x, Head(q)) THEN <<x>> \o q
    ELSE <<Head(q)>> \o Insert(x, Tail(q))

RECURSIVE SortFrom(_, _)
SortFrom(acc, q) ==
    IF q = <<>> THEN acc ELSE SortFrom(Insert(Head(q), acc), Tail(q))

\* nmcli.rs 41
sort_by(q) == SortFrom(<<>>, q)

\* nmcli.rs 44: the closure; a is the later element, b the one kept before
same_bucket(a, b) == a.ssid = b.ssid /\ ~a.in_use

RECURSIVE DedupFrom(_, _)
\* Vec::dedup_by: an element is dropped when the closure accepts it
\* against the last element kept, i.e. only runs of neighbours collapse
DedupFrom(acc, q) ==
    IF q = <<>> THEN acc
    ELSE IF acc # <<>> /\ same_bucket(Head(q), acc[Len(acc)])
         THEN DedupFrom(acc, Tail(q))
         ELSE DedupFrom(Append(acc, Head(q)), Tail(q))

\* nmcli.rs 44
dedup_by(q) == DedupFrom(<<>>, q)

\* nmcli.rs 40-46
list_access_points(q) == dedup_by(sort_by(q))

ListFrame ==
    /\ UNCHANGED scanVars
    /\ UNCHANGED connVars
    /\ UNCHANGED menuVars
    /\ UNCHANGED daemonVars
    /\ UNCHANGED classVars

\* nmcli.rs 20-38: nmcli ran and its lines were parsed
ListCall(q) ==
    /\ lpc = "idle"
    /\ scanOut' = q
    /\ lpc' = "parsed"
    /\ UNCHANGED listed
    /\ ListFrame

\* nmcli.rs 31: nmcli could not be run; `?` returns the error
ListSpawnErr ==
    /\ lpc = "idle"
    /\ lpc' = "err"
    /\ UNCHANGED <<scanOut, listed>>
    /\ ListFrame

\* nmcli.rs 40-46: sort, deduplicate, return Ok(aps)
ListReturn ==
    /\ lpc = "parsed"
    /\ listed' = list_access_points(scanOut)
    /\ lpc' = "ok"
    /\ UNCHANGED scanOut
    /\ ListFrame

InitList ==
    /\ ScanInitial /\ ttl = MaxTTL /\ ConnIdle /\ maxRetry = DefaultMaxRetry
    /\ MenuInitial /\ DaemonsOff /\ ListIdle /\ ClassIdle

NextList ==
    \/ \E q \in ScanOutputs : ListCall(q)
    \/ ListSpawnErr
    \/ ListReturn

SpecList == InitList /\ [][NextList]_vars

\* ------------------------------------------------- nmcli.rs connect_new
\* nmcli.rs 192-195: the substrings connect_new looks for
CredentialKeywords ==
    {"secrets", "password", "authentication", "802-11-wireless-security"}
\* what nmcli prints, word by word: a keyword or some other word, each in
\* lower case or not
Vocabulary == CredentialKeywords \cup {"timeout", "error"}
Words == [w : Vocabulary, upper : BOOLEAN]

\* the outputs (stderr, stdout) of one nmcli run
Outputs ==
    {eo \in SeqsUpTo(Words, MaxWords) \X SeqsUpTo(Words, MaxWords) :
        Len(eo[1]) + Len(eo[2]) <= MaxWords}

\* nmcli.rs 183-184: str::to_lowercase
to_lowercase(q) == [i \in DOMAIN q |-> [w |-> q[i].w, upper |-> FALSE]]

\* str::contains: the text has the pattern exactly as spelled, in lower case
contains(q, pat) == \E i \in DOMAIN q : q[i] = [w |-> pat, upper |-> FALSE]

\* nmcli.rs 183-185: format!("{stderr}{stdout}") of the lower-cased outputs
combined(e, o) == to_lowercase(e) \o to_lowercase(o)

classify_timeout_first(c) ==
    IF contains(c, "timeout") THEN "Timeout"
    ELSE IF \E k \in CredentialKeywords : contains(c, k) THEN "WrongPassword"
    ELSE "Failed"

\* nmcli.rs 191-207
classify(c) ==
    IF \/ contains(c, "secrets")
       \/ contains(c, "password")
       \/ contains(c, "authentication")
       \/ contains(c, "802-11-wireless-security")
    THEN "WrongPassword"
    ELSE IF contains(c, "timeout") THEN "Timeout"
    ELSE "Failed"

ClassFrame ==
    /\ UNCHANGED scanVars
    /\ UNCHANGED connVars
    /\ UNCHANGED menuVars
    /\ UNCHANGED daemonVars
    /\ UNCHANGED listVars

\* nmcli.rs 176-177: nmcli could not be run
ConnectNewSpawnErr ==
    /\ kpc = "idle"
    /\ connRes' = "Failed"
    /\ kpc' = "returned"
    /\ UNCHANGED <<nmErr, nmOut>>
    /\ ClassFrame

\* nmcli.rs 178-181: nmcli exited with success
ConnectNewSuccess(e, o) ==
    /\ kpc = "idle"
    /\ nmErr' = e /\ nmOut' = o
    /\ connRes' = "Success"
    /\ kpc' = "returned"
    /\ ClassFrame

\* nmcli.rs 178, 182-190: nmcli exited with a failure; the outputs are
\* read and the left-over profile deleted
ConnectNewFailure(e, o) ==
    /\ kpc = "idle"
    /\ nmErr' = e /\ nmOut' = o
    /\ kpc' = "failed"
    /\ UNCHANGED connRes
    /\ ClassFrame

\* nmcli.rs 191-207: the result follows from the combined output
ConnectNewClassified ==
    /\ kpc = "failed"
    /\ connRes' = classify(combined(nmErr, nmOut))
    /\ kpc' = "returned"
    /\ UNCHANGED <<nmErr, nmOut>>
    /\ ClassFrame

InitClassify ==
    /\ ScanInitial /\ ttl = MaxTTL /\ ConnIdle /\ maxRetry = DefaultMaxRetry
    /\ MenuInitial /\ DaemonsOff /\ ListIdle /\ ClassIdle

NextClassify ==
    \/ ConnectNewSpawnErr
    \/ \E eo \in Outputs : ConnectNewSuccess(eo[1], eo[2])
    \/ \E eo \in Outputs : ConnectNewFailure(eo[1], eo[2])
    \/ ConnectNewClassified

SpecClassify == InitClassify /\ [][NextClassify]_vars

\* ================================================================ claims
\* ttl arguments: every value up to past the oldest possible snapshot, and
\* the two values the callers pass, cfg.cache_ttl and cfg.cache_ttl * 10
TTLs == 0..(MaxTime + 1) \cup {ttl, ttl * 10}
Max(a, b) == IF a >= b THEN a ELSE b
\* processes between the start of their rescan and the end of their write
InFlight == {p \in Writers : pc[p] \in {"scan", "wdata", "rename"}}
\* do_scan callers past a successful flock and before the matching unlock
Critical == {p \in Scanners :
                pc[p] \in {"scan", "wdata", "rename", "unlock"}}

\* C1: whatever a reader finds under the cache path is a complete snapshot
\* (the one before or the one after a write), never an empty, partial or
\* mixed document.
C1_ReadsSeeWholeSnapshot ==
    cacheFile.kind # "absent" => Complete(cacheFile)

\* C2: at most one scan-and-write sequence is in flight on the host,
\* counting the foreground process, its tasks, the scan command and the
\* daemon.
C2_OneScanInFlight == Cardinality(InFlight) <= 1

\* C3: of the do_scan calls racing on the lock at most one is past the flock,
\* and it is the lock's owner; a call that finds the lock held returns at
\* once: it runs no scan, writes nothing and leaves the lock alone.
C3_MutexInv ==
    /\ Cardinality(Critical) <= 1
    /\ \A p \in Critical : lockHolder = p
C3_BusyStep ==
    \A p \in Scanners :
        (pc[p] = "lock" /\ lockHolder # Nobody /\ pc'[p] # "lock") =>
            /\ pc'[p] = AfterScan(p)
            /\ lockHolder' = lockHolder
            /\ cacheFile' = cacheFile /\ tmpFile' = tmpFile
            /\ aps'[p] = aps[p] /\ fgScan' = fgScan
C3_TryLockExclusive == []C3_MutexInv /\ [][C3_BusyStep]_vars
\* the foreground call came back busy while another caller still scans
C3_Witness ==
    /\ pc[FG] = "reread" /\ fgPath = "busy"
    /\ \E p \in Scanners \ {FG} : lockHolder = p /\ pc[p] = "scan"

\* C4: a snapshot written at T is returned by read(ttl) at time now iff
\* T <= now < T + ttl, and read misses whenever now >= T + ttl.
C4_TtlWindow ==
    \A t \in TTLs :
        Complete(cacheFile) =>
            LET T == cacheFile.ts
                r == read(cacheFile, now, t) IN
            /\ (r = Some(cacheFile.aps)) <=> (T <= now /\ now < T + t)
            /\ (now >= T + t) => (r = None)
\* one second after the write: a hit with ttl 2, a miss with ttl 1
C4_Witness ==
    /\ Complete(cacheFile) /\ now = cacheFile.ts + 1
    /\ read(cacheFile, now, 2) = Some(cacheFile.aps)
    /\ read(cacheFile, now, 1) = None

\* C5: remaining_ttl(ttl) is max(0, ttl - (now - T)) for a snapshot written
\* at T, zero for a missing, unparsable or expired file, never negative, and
\* does not grow while the file stays the same.
C5_Value ==
    \A t \in TTLs :
        LET r == remaining_ttl(cacheFile, now, t) IN
        /\ r >= 0
        /\ Complete(cacheFile) => r = Max(0, t - (now - cacheFile.ts))
        /\ cacheFile.kind = "absent" => r = 0
        /\ ~Parses(cacheFile) => r = 0
        /\ ~read(cacheFile, now, t).some => r = 0
C5_Monotone ==
    cacheFile' = cacheFile =>
        \A t \in TTLs :
            remaining_ttl(cacheFile', now', t) <= remaining_ttl(cacheFile, now, t)
C5_RemainingTtl == []C5_Value /\ [][C5_Monotone]_vars
\* a snapshot one second old with one second left of a ttl of two, and the
\* same snapshot expired for a ttl of one
C5_Witness ==
    /\ Complete(cacheFile) /\ now = cacheFile.ts + 1
    /\ remaining_ttl(cacheFile, now, 2) = 1
    /\ remaining_ttl(cacheFile, now, 1) = 0

\* C6: when get_aps hits the cache it makes exactly one refresh task
\* runnable and returns the cached list in the same step, without touching
\* the lock, whoever holds it; afterwards no task step changes the value it
\* returned.
C6_HitStep ==
    (pc[FG] = "read" /\ read(cacheFile, now, ttl).some /\ pc'[FG] # "read") =>
        /\ pc'[FG] = "menu"
        /\ result' = read(cacheFile, now, ttl).aps
        /\ Cardinality({t \in Tasks : pc[t] = "idle" /\ pc'[t] = "lock"}) = 1
        /\ \A t \in Tasks : pc'[t] # pc[t] => pc[t] = "idle"
        /\ lockHolder' = lockHolder
C6_Returned ==
    (pc[FG] = "menu" /\ pc'[FG] = "menu") => result' = result
C6_HitSpawnsOne == [][C6_HitStep /\ C6_Returned]_vars
\* a hit returned while the scan command held the scan lock, every task
\* still waiting to run
C6_Witness ==
    /\ pc[FG] = "menu" /\ result # <<>>
    /\ lockHolder = CMD
    /\ \A t \in Tasks : pc[t] = "lock"

\* get_aps returns from its re-read after do_scan took the given path
RereadReturns(path) ==
    pc[FG] = "reread" /\ fgPath = path /\ pc'[FG] = "menu"

\* C7: after a miss with the lock busy get_aps runs no scan of its own and
\* re-reads the cache only once the scan that held the lock has finished.
C7_BusyRereadWaits ==
    [][RereadReturns("busy") => (aps[FG] = <<>> /\ lockHolder = Nobody)]_vars

\* C8: after a miss, a successful flock, scan and write, get_aps returns the
\* list its own scan produced, with the lock released.
C8_ReturnsOwnScan ==
    [][(RereadReturns("scan") /\ fgScan = "ok") =>
          (result' = aps[FG] /\ lockHolder # FG)]_vars

\* C9: after a miss whose synchronous scan or write failed, get_aps returns
\* the empty sequence.
C9_FailureGivesEmpty ==
    [][(RereadReturns("scan") /\ fgScan = "err") => result' = <<>>]_vars

\* number of connect_new calls made so far
Connects == Len(results)
Last(q) == q[Len(q)]
AllWrong == \A i \in 1..Len(results) : results[i] = "WrongPassword"

\* C10 as stated: never more than N connect calls, and a run whose attempts
\* all reported WrongPassword ends with the final failure notification
\* stating N.
C10_AlwaysWrongEndsFailed ==
    /\ Connects <= maxRetry
    /\ (cpc = "done" /\ Connects >= 1 /\ AllWrong) =>
           Last(log) = Event("notify_final", maxRetry)

\* C10 amended: never more than N connect calls, and a run in which all N
\* attempts were made (the user typed a credential at every retry prompt) and
\* every one reported WrongPassword ends with the final failure notification
\* stating N.
C10_RetryCeiling ==
    /\ Connects <= maxRetry
    /\ (cpc = "done" /\ Connects >= 1 /\ AllWrong /\ Connects = maxRetry) =>
           Last(log) = Event("notify_final", maxRetry)
\* two or more attempts, all of them wrong, the run over
C10_Witness ==
    /\ cpc = "done" /\ maxRetry >= 2
    /\ Connects = maxRetry /\ AllWrong
    /\ Last(log) = Event("notify_final", maxRetry)

\* positions in the log of the events named e
Where(e) == {i \in 1..Len(log) : log[i].ev = e}
Count(e) == Cardinality(Where(e))
\* the retry prompt was cancelled or left empty
Cancelled == Where("notify_cancelled") # {}
FailureNotices == {"notify_final", "notify_timeout", "notify_failed"}
Failures == {i \in 1..Len(log) : log[i].ev \in FailureNotices}

\* C11: with a ceiling N of at least one, a run whose attempts all reported
\* WrongPassword and whose retry prompts were all answered with a credential
\* makes exactly N connect calls and shows exactly N-1 retry prompts (3 and 2
\* for the ceiling 3), and ends with the final failure notification.
C11_ExactAttemptsAndPrompts ==
    (cpc = "done" /\ maxRetry >= 1 /\ AllWrong /\ ~Cancelled) =>
        /\ Connects = maxRetry
        /\ Count("prompt") = maxRetry - 1
        /\ Count("connect") = maxRetry
        /\ Last(log) = Event("notify_final", maxRetry)
        /\ Cardinality(Failures) = 1
\* ceiling 3: three wrong attempts, two prompts, failed
C11_Witness ==
    /\ cpc = "done" /\ maxRetry = 3 /\ AllWrong /\ ~Cancelled
    /\ Connects = 3 /\ Count("prompt") = 2

\* C12: a Timeout or Failed result is the last thing do_connect_new does
\* apart from its one failure notification: it is the last result, the run is
\* over, the log ends with the matching notification right after the connect
\* call, no other failure notification exists and no prompt follows; a first
\* attempt that times out is the only attempt.
C12_FatalResultEndsRun ==
    /\ \A i \in 1..Len(results) :
           results[i] \in {"Timeout", "Failed"} =>
               /\ i = Len(results)
               /\ cpc = "done"
               /\ Last(log) = Event(IF results[i] = "Timeout"
                                    THEN "notify_timeout" ELSE "notify_failed", 0)
               /\ log[Len(log) - 1].ev = "connect"
               /\ Cardinality(Failures) = 1
    /\ (results # <<>> /\ results[1] = "Timeout") =>
           (Connects = 1 /\ Count("prompt") = 0)
\* a timeout on the second attempt, after one wrong password and one prompt
C12_Witness ==
    /\ results = <<"WrongPassword", "Timeout">>
    /\ cpc = "done" /\ Count("prompt") = 1
    /\ Last(log) = Event("notify_timeout", 0)

\* C13: a cancelled or empty retry prompt ends the run: "cancelled" is the
\* last event, nothing is attempted afterwards and the number of attempts
\* made stays what it was; a typed credential leaves the prompt for the
\* connect call of the next attempt, which is made with exactly that
\* credential and raises the number of attempts made by one.
C13_Abandoned ==
    Cancelled => (cpc = "done" /\ Last(log) = Event("notify_cancelled", 0))
C13_PromptStep ==
    /\ (cpc = "prompt" /\ cpc' # "prompt") =>
           /\ results' = results /\ attempt' = attempt
           /\ \/ cpc' = "done" /\ Cancelled' /\ pass' = pass
              \/ /\ cpc' = "connect" /\ ~Cancelled'
                 /\ pass' \in Creds /\ Last(log') = Event("typed", pass')
                 /\ attempt' = Connects + 1
    /\ (cpc = "connect" /\ cpc' # "connect") =>
           /\ Len(results') = Connects + 1
           /\ log'[Len(log) + 2] = Event("connect", pass)
           /\ (log # <<>> /\ Last(log).ev = "typed") => Last(log).n = pass
    /\ Cancelled => results' = results
C13_CancelOrRetry == []C13_Abandoned /\ [][C13_PromptStep]_vars
\* cancelled at the second prompt: two attempts made, the third never
C13_Witness ==
    /\ cpc = "done" /\ Cancelled /\ maxRetry = 3
    /\ Connects = 2 /\ Count("prompt") = 2 /\ Count("typed") = 1

\* C14 as stated: after a Success the connected notification comes before
\* the reachability probe.
C14_NotifyThenProbe ==
    (cpc = "done" /\ results # <<>> /\ Last(results) = "Success") =>
        \A i \in Where("notify_connected") : \A j \in Where("ping") : i < j

\* C14 amended: after a Success the run makes the reachability probe, then
\* emits exactly one connected notification carrying the address connect_new
\* acquired, and is over: no connect call or prompt follows the Success, and
\* no failure is notified.
C14_ProbeThenNotify ==
    /\ (results # <<>> /\ Last(results) = "Success") => cpc \in {"post", "done"}
    /\ \A i \in 1..Len(results) : results[i] = "Success" => i = Len(results)
    /\ (cpc = "done" /\ results # <<>> /\ Last(results) = "Success") =>
           /\ Count("ping") = 1 /\ Count("notify_connected") = 1
           /\ Count("get_ip") = 1
           /\ \A g \in Where("get_ip") : \A i \in Where("ping") :
              \A j \in Where("notify_connected") :
                  /\ g < i /\ i < j
                  /\ log[j].n = log[g].n
                  /\ \A k \in Where("connect") \cup Where("prompt") : k < g
           /\ Failures = {}
\* success at the second attempt with an address, the run over
C14_Witness ==
    /\ cpc = "done" /\ results = <<"WrongPassword", "Success">>
    /\ Count("notify_connected") = 1 /\ Last(log) = Event("auto_vpn", 0)
    /\ \E j \in Where("notify_connected") : log[j].n = 1

\* the Connect action found the chosen network among the saved profiles
OnSavedPath == action = "Connect" /\ saved

\* C15: a Connect on a network with a saved profile never shows a password
\* prompt and never enters do_connect_new; it calls connect_saved exactly
\* once and resolves to Back, and when that call fails, the one failure
\* notification is the last thing it does.
C15_SavedProfileSingleAttempt ==
    OnSavedPath =>
        /\ mpc \in {"connect_saved", "main"}
        /\ cpc = "idle" /\ Connects = 0
        /\ Count("prompt") = 0 /\ Count("connect") = 0
        /\ mpc = "connect_saved" => Count("connect_saved") = 0
        /\ mpc = "main" =>
               /\ Count("connect_saved") = 1 /\ nav = "Back" /\ ~force
               /\ Cardinality(Failures) <= 1
               /\ Failures # {} =>
                      /\ Last(log) = Event("notify_failed", 0)
                      /\ Count("notify_connected") = 0
               /\ Failures = {} => Count("notify_connected") = 1
\* the saved profile could not be brought up: reported, back at the loop
C15_Witness ==
    /\ OnSavedPath /\ mpc = "main" /\ nav = "Back"
    /\ Count("connect_saved") = 1
    /\ Last(log) = Event("notify_failed", 0)

\* the step cancels the nested prompt that is open
CancelStep ==
    /\ mpc \in NestedPrompts
    /\ Len(log') = Len(log) + 1
    /\ Last(log') = Event("cancel", 0)

\* C16: Quit is signalled, and the loop left through it, only from the main
\* list; cancelling any nested prompt or panel, and coming back from a
\* do_connect_new whose retry prompt was cancelled, gives Back and returns to
\* the head of the loop without forcing a scan.
C16_QuitInv == (nav = "Quit") <=> (mpc = "exit")
C16_Step ==
    /\ (mpc' = "exit" /\ mpc # "exit") => mpc = "main_menu"
    /\ CancelStep => (nav' = "Back" /\ mpc' = "main" /\ ~force')
    /\ (mpc = "do_connect_new" /\ Cancelled /\ mpc' # mpc) =>
           (nav' = "Back" /\ mpc' = "main" /\ ~force')
C16_QuitOnlyFromMainList == []C16_QuitInv /\ [][C16_Step]_vars
\* back at the loop after the first password prompt was cancelled
C16_Witness ==
    /\ mpc = "main" /\ nav = "Back" /\ action = "Connect"
    /\ log = <<Event("cancel", 0)>>

\* C17: while an action is being handled the loop is never left with an
\* error or a panic: the action ends in a navigation signal.
C17_EveryActionResolves ==
    action # "none" => mpc \notin {"error", "panic"}

\* the scan path of this iteration's get_aps failed
ScanPathFailed == fgPath \in {"openerr", "busy"} \/ fgScan = "err"

\* C18: an iteration whose get_aps met a failure on the scan path still gets
\* to show the main list: it does not end in an error or a panic before an
\* action is chosen.
C18_ScanFailureKeepsMenu ==
    (ScanPathFailed /\ action = "none") => mpc \notin {"error", "panic"}

\* C19: at the head of the loop `force` is set exactly when the previous
\* run_menu returned Refresh (never before the first one), and the call of
\* run_menu removes the cache file exactly in that case.
C19_ForceInv == mpc = "main" => (force <=> nav = "Refresh")
C19_CallStep ==
    (mpc = "main" /\ mpc' # "main") =>
        /\ mpc' = "get_aps"
        /\ cacheFile' = IF nav = "Refresh" THEN Absent ELSE cacheFile
C19_ForceIffRefresh == []C19_ForceInv /\ [][C19_CallStep]_vars
\* after Back the next get_aps has started and the snapshot is still there
C19_Witness ==
    /\ mpc = "get_aps" /\ nav = "Back" /\ ~force
    /\ Complete(cacheFile)

\* daemon processes inside the periodic refresh loop
InLoop == {d \in Daemons : dpc[d] \in {"loop", "sleep"}}

\* C20: at most one daemon process is inside the refresh loop.
C20_SingleDaemon == Cardinality(InLoop) <= 1

\* the PID file names a process that is alive
PidFileNamesLive == pidFile \in Daemons /\ dpc[pidFile] \in Alive

\* C21: a daemon start that finds the PID file naming a live process reports
\* already-running and returns at once: that step leaves the PID file and the
\* cache as they were, sends nothing, and the process never writes the PID
\* file, scans or enters the loop afterwards.
C21_Step ==
    \A d \in Daemons :
        /\ (dpc[d] = "start" /\ PidFileNamesLive /\ dpc'[d] # "start") =>
               /\ dpc'[d] = "already"
               /\ pidFile' = pidFile /\ cacheFile' = cacheFile
               /\ lastIter' = lastIter /\ sigterm' = sigterm
        /\ dpc[d] = "already" =>
               (dpc'[d] = "already" /\ lastIter'[d] = lastIter[d])
C21_AlreadyRunningNoEffect ==
    [](\A d \in Daemons : dpc[d] = "already" => lastIter[d] = "none")
        /\ [][C21_Step]_vars
\* a second start has returned while the first daemon, named by the PID
\* file, sleeps after a successful iteration
C21_Witness ==
    \E d \in Daemons :
        /\ dpc[d] = "already"
        /\ PidFileNamesLive /\ dpc[pidFile] = "sleep"
        /\ lastIter[pidFile] = "ok" /\ Complete(cacheFile)

\* `rofi-wifi daemon-stop` returns in this step
StopReturns ==
    spc # spc' /\ spc' \in {"notrunning", "err_read", "err_remove", "stopped"}

\* C22 as stated: with no PID file stop reports not-running, sends no signal
\* and changes nothing; whenever it found a PID file it sends SIGTERM to the
\* PID in it and the PID file is absent when it returns.
C22_PresentAlwaysStopped ==
    [][StopReturns =>
          IF spc = "exists"
          THEN spc' = "notrunning" /\ pidFile = NoPid /\ pidFile' = NoPid
               /\ sigterm' = sigterm /\ dpc' = dpc
          ELSE spc' \in {"stopped", "err_remove"} /\ pidFile' = NoPid]_vars

\* C22: with no PID file stop reports not-running, sends no signal and
\* changes nothing; when it found a PID file and read a PID from it, it
\* sends SIGTERM to that PID (pending for a live process) and the PID file
\* is absent when it returns, while the process may still be running; when
\* it found a PID file but no PID can be read from it, it returns an error,
\* having sent no signal and leaving the PID file as it is.
C22_Step ==
    /\ StopReturns =>
          /\ spc = "exists" =>
                /\ spc' = "notrunning" /\ pidFile = NoPid /\ pidFile' = NoPid
                /\ sigterm' = sigterm /\ dpc' = dpc
          /\ spc = "remove" => pidFile' = NoPid
    /\ (spc = "read" /\ spc' # spc) =>
          IF read_pid = NoPid
          THEN /\ spc' = "err_read"
               /\ pidFile' = pidFile /\ sigterm' = sigterm /\ dpc' = dpc
          ELSE spc' = "kill" /\ spid' = read_pid
    /\ (spc = "kill" /\ spc' # spc) =>
          /\ spc' = "remove" /\ pidFile' = pidFile
          /\ kill0(spid) => spid \in sigterm'
    /\ spc \in {"exists", "read", "kill"} => spc' \in {spc, "notrunning",
          "read", "err_read", "kill", "remove"}
C22_StopSignalsAndRemoves == [][C22_Step]_vars
\* stop has returned, the PID file is gone, and the daemon it signalled is
\* still in its loop with the signal pending
C22_Witness ==
    /\ spc = "stopped" /\ pidFile = NoPid
    /\ spid \in sigterm /\ dpc[spid] \in {"loop", "sleep"}

\* the daemon was ended by a signal
Signalled(d) == dpc[d] \in {"exited", "killed"}

\* C23: an iteration whose listing or cache write failed does not end the
\* daemon: a process in the loop leaves it only by a signal, after every
\* iteration it sleeps, and unless signalled it gets from the sleep to the
\* next iteration and from there to the next sleep, forever.
C23_Step ==
    \A d \in Daemons :
        /\ (dpc[d] = "loop" /\ dpc'[d] # "loop") =>
               (dpc'[d] = "sleep" \/ Signalled(d)')
        /\ (dpc[d] = "sleep" /\ dpc'[d] # "sleep") =>
               (dpc'[d] = "loop" \/ Signalled(d)')
C23_FailedIterationGoesOn ==
    /\ [][C23_Step]_vars
    /\ \A d \in Daemons :
          (dpc[d] = "sleep" /\ lastIter[d] # "ok") ~>
              ((dpc[d] = "loop" /\ lastIter[d] # "ok") \/ Signalled(d))
    /\ \A d \in Daemons :
          (dpc[d] = "loop" /\ lastIter[d] \in {"listerr", "writeerr"}) ~>
              (dpc[d] = "sleep" \/ Signalled(d))
\* a daemon sleeps after a failed write, its previous iteration having
\* failed too: the cache was never written
C23_Witness ==
    \E d \in Daemons :
        /\ dpc[d] = "sleep" /\ lastIter[d] = "writeerr"
        /\ cacheFile.kind = "absent"

\* the SSIDs of the entries of q that are (not) associated
Ssids(q, used) == {q[i].ssid : i \in {j \in DOMAIN q : q[j].in_use = used}}

\* C24: in the list returned no two entries have the same SSID: same-SSID
\* entries that are not associated have become one, and where an associated
\* entry shares its SSID with others the associated one is the one kept;
\* every SSID of the listing is still there.
C24_DuplicatesCollapsed ==
    lpc = "ok" =>
        /\ \A i, j \in DOMAIN listed :
               (i # j /\ listed[i].ssid = listed[j].ssid) =>
                   (listed[i].in_use /\ listed[j].in_use)
        /\ Ssids(listed, TRUE) = Ssids(scanOut, TRUE)
        /\ Ssids(listed, TRUE) \cup Ssids(listed, FALSE) =
               Ssids(scanOut, TRUE) \cup Ssids(scanOut, FALSE)

\* C25: a daemon iteration is an ensure_fresh(force = true): it starts by
\* invalidating the cache, and the daemon scans and writes only while it
\* holds the scan lock.
C25_DaemonIterationIsEnsureFresh ==
    /\ [](pc[DMN] \in {"scan", "wdata", "rename"} => lockHolder = DMN)
    /\ [][(pc[DMN] # "scan" /\ pc'[DMN] = "scan") =>
             cacheFile'.kind = "absent"]_vars

\* C26: once a cache write has succeeded, a read returns exactly the
\* sequence that write was given (the sorted list of its scan), whole and in
\* the same order, whatever the file held before.
C26_ReadReturnsLastWrite ==
    [][\A p \in Writers :
          (pc[p] = "rename" /\ pc'[p] = AfterWrite(p)
               /\ tmpFile.kind # "absent") =>
              read(cacheFile', now', MaxTime + 1) = Some(aps[p])]_vars

\* positions of a do_scan call between its flock and the end of its unlock
Locked == {"scan", "wdata", "rename", "unlock"}

\* C27: the flock is held only by a do_scan call between its acquisition and
\* its unlock; whichever way the call goes after the acquisition (listing
\* fails, write fails, all succeeds) it passes through the unlock, which
\* frees the lock; so once its external scan returns a held lock becomes
\* free and a later try-acquire succeeds.
C27_Inv ==
    /\ lockHolder \in Scanners \cup {Nobody}
    /\ \A p \in Scanners : lockHolder = p => pc[p] \in Locked
C27_Step ==
    \A p \in Scanners :
        /\ (lockHolder # p /\ lockHolder' = p) =>
               (lockHolder = Nobody /\ pc[p] = "lock" /\ pc'[p] = "scan")
        /\ (lockHolder = p /\ pc'[p] # pc[p]) =>
               IF pc[p] = "unlock"
               THEN lockHolder' = Nobody /\ pc'[p] = AfterScan(p)
               ELSE lockHolder' = p /\ pc'[p] \in Locked
C27_LockAlwaysReleased ==
    /\ []C27_Inv
    /\ [][C27_Step]_vars
    /\ (lockHolder # Nobody) ~> (lockHolder = Nobody)
\* the scan command holds the lock after the foreground call, whose write
\* failed, has released it
C27_Witness ==
    /\ lockHolder = CMD
    /\ pc[FG] = "reread" /\ fgPath = "scan" /\ fgScan = "err"

\* C28: when a process dies inside cache::write, the cache file it leaves
\* behind is absent or a complete snapshot, never an empty or partial
\* document.
C28_CrashLeavesWholeCache ==
    [][\A p \in {CMD, DMN} :
          (pc[p] \in {"wdata", "rename"} /\ pc'[p] = Gone(p)) =>
              (cacheFile'.kind = "absent" \/ Complete(cacheFile'))]_vars

\* C29: read misses, returning None and nothing else, on a missing file, on
\* an unparsable file and on a snapshot as old as the ttl or older;
\* get_aps goes on to its read whether or not the invalidation found a
\* file; and once the file is gone it stays gone, every read missing, until
\* the rename of a write that succeeds.
C29_Miss ==
    \A t \in TTLs :
        (\/ cacheFile.kind = "absent"
         \/ ~Parses(cacheFile)
         \/ Complete(cacheFile) /\ now - cacheFile.ts >= t) =>
            read(cacheFile, now, t) = None
C29_Step ==
    /\ (pc[FG] = "menu" /\ pc'[FG] # "menu") =>
           (pc'[FG] = "read" /\ (cacheFile' = cacheFile \/ cacheFile' = Absent))
    /\ (cacheFile.kind = "absent" /\ cacheFile'.kind # "absent") =>
           \E p \in Writers :
               /\ pc[p] = "rename" /\ pc'[p] = AfterWrite(p)
               /\ tmpFile.kind # "absent"
C29_MissAndInvalidate == []C29_Miss /\ [][C29_Step]_vars
\* the foreground read has just missed on an expired snapshot that is
\* still in place
C29_Witness ==
    /\ pc[FG] = "lock" /\ fgPath = "miss"
    /\ Complete(cacheFile) /\ ttl > 0 /\ now - cacheFile.ts >= ttl

\* C30: a scan-and-write that ends without a write, its listing (or the
\* opening of the temporary file) having failed, leaves the cache file and
\* the temporary file exactly as they were, in do_scan and in the daemon
\* alike.
C30_Step ==
    \A p \in Writers :
        (pc[p] = "scan" /\ pc'[p] = AfterWrite(p)) =>
            (cacheFile' = cacheFile /\ tmpFile' = tmpFile)
C30_FailedListingKeepsCache == [][C30_Step]_vars
\* the foreground listing failed and the expired snapshot is still there
C30_Witness ==
    /\ pc[FG] = "unlock" /\ fgScan = "err" /\ aps[FG] = <<>>
    /\ Complete(cacheFile)

\* notifications that tell the outcome of a do_connect_new run
TerminalNotices == FailureNotices \cup {"notify_connected", "notify_cancelled"}

\* C31: whatever the ceiling (0 included), a run of do_connect_new that is
\* over has emitted exactly one outcome notification: connected, final
\* wrong-credential failure, timeout, other failure or cancelled.
C31_OneTerminalNotification ==
    cpc = "done" =>
        Cardinality({i \in 1..Len(log) : log[i].ev \in TerminalNotices}) = 1

\* a stop has read this daemon's PID and is signalling or has signalled it
StopIssued(d) ==
    spid = d /\ spc \in {"kill", "remove", "stopped", "err_remove"}

\* C32: a daemon that is inside its refresh loop and has no stop issued
\* against it finds the PID file in place and naming it, and a daemon's
\* signal handler removes no PID file that names a different live daemon.
C32_Inv ==
    \A d \in Daemons :
        (dpc[d] \in {"loop", "sleep"} /\ ~StopIssued(d)) => pidFile = d
C32_Step ==
    \A d \in Daemons :
        (dpc[d] \in {"loop", "sleep"} /\ dpc'[d] = "exited") =>
            ~(pidFile \in Daemons \ {d} /\ dpc[pidFile] \in Alive)
C32_HandlerKeepsOthersPidFile == []C32_Inv /\ [][C32_Step]_vars

\* the words of the vocabulary the outputs hold, in whichever case
Spoken(e, o) == {e[i].w : i \in DOMAIN e} \cup {o[i].w : i \in DOMAIN o}

\* C33: a failed connect is classified as exactly one of WrongPassword,
\* Timeout and Failed, by the combined output read without regard to case:
\* WrongPassword when it has a credential keyword, even next to "timeout";
\* otherwise Timeout when it has "timeout"; otherwise Failed.
C33_Inv ==
    (kpc = "returned" /\ connRes # "Success") =>
        LET said == Spoken(nmErr, nmOut) IN
        /\ connRes \in {"WrongPassword", "Timeout", "Failed"}
        /\ connRes = "WrongPassword" <=> said \cap CredentialKeywords # {}
        /\ connRes = "Timeout" <=>
               (said \cap CredentialKeywords = {} /\ "timeout" \in said)
        /\ connRes = "Failed" <=>
               (said \cap CredentialKeywords = {} /\ "timeout" \notin said)
C33_Step ==
    (kpc = "failed" /\ kpc' # "failed") =>
        /\ kpc' = "returned"
        /\ connRes' \in {"WrongPassword", "Timeout", "Failed"}
        /\ nmErr' = nmErr /\ nmOut' = nmOut
C33_ClassifyPrecedence == []C33_Inv /\ [][C33_Step]_vars
\* "TIMEOUT" on stderr and "Password" on stdout: a wrong password
C33_Witness ==
    /\ kpc = "returned" /\ connRes = "WrongPassword"
    /\ nmErr = <<[w |-> "timeout", upper |-> TRUE]>>
    /\ nmOut = <<[w |-> "password", upper |-> TRUE]>>

====
